---- MODULE Spec2Model ----
(***************************************************************************)
(* Model of relay_leaf.py: the RelayLeaf ctypes wrapper around the native  *)
(* relay client library, and the console runner main().                    *)
(*                                                                         *)
(* The wrapper (class RelayLeaf, main) is translated from the Python       *)
(* source.  The native library (relay_leaf_win64.dll) is not available as  *)
(* source; its behaviour behind each relay_leaf_* entry point is modelled  *)
(* from the specification document and kept in the Native* definitions.    *)
(***************************************************************************)
EXTENDS Integers, Sequences, FiniteSets, TLC

(***************************************************************************)
(* Bounds of the model.                                                    *)
(***************************************************************************)
MaxHandles == 2
MaxProxies == 2
MaxStreams == 2

(***************************************************************************)
(* class RelayLeafError                                                    *)
(***************************************************************************)
OK == 0
NULL_PARAM == 1
INVALID_HANDLE == 2
CREATE_FAILED == 3
START_FAILED == 4
ALREADY_STARTED == 5
NOT_STARTED == 6
INVALID_PROXY == 7
INTERNAL == 99

\* self._handle = None; a null c_void_p is falsy as well
None == 0

Handles == 1..MaxHandles

VARIABLES
  handle,     \* RelayLeaf._handle: None or the native handle held
  nstate,     \* native library: lifecycle state of every session
  ncfg,       \* native library: configuration of the session behind `handle`
  nstats,     \* native library: live counters of the session behind `handle`
  last,       \* what the most recent wrapper call gave back to its caller
  pc,         \* main(): position of the console runner
  running,    \* main(): the flag cleared by signal_handler
  relay,      \* main(): whether the local `relay` is bound to a RelayLeaf
  log         \* main(): wrapper calls made by the finally block, in order

apiVars == <<handle, nstate, ncfg, nstats, last>>
sessionVars == <<handle, nstate, ncfg, nstats>>
mainVars == <<pc, running, relay, log>>
vars == <<handle, nstate, ncfg, nstats, last, pc, running, relay, log>>

(***************************************************************************)
(* Inputs.  A proxy URL is scheme://[user:pass@]host:port; it is kept as   *)
(* its parsed parts so that validation is computed, "not-a-url" being the  *)
(* URL with no scheme, host or port.                                       *)
(***************************************************************************)
ProxyUrls ==
  { [scheme |-> "socks5", host |-> "127.0.0.1", port |-> 1080],
    [scheme |-> "http",   host |-> "10.0.0.1",  port |-> 8080],
    [scheme |-> "",       host |-> "not-a-url", port |-> 0],
    [scheme |-> "socks5", host |-> "",          port |-> 1080],
    [scheme |-> "ftp",    host |-> "10.0.0.1",  port |-> 21] }

DiscoveryUrls == { "https://api.prx.network/public/relay/nodes" }
PartnerIds == { "my-partner-id" }

DefaultCfg == [url |-> "library-default", partner |-> "unset", proxies |-> <<>>]
ZeroStats == [active_streams |-> 0, total_streams |-> 0]

(***************************************************************************)
(* The native library, modelled from the specification document.  Every    *)
(* session has a lifecycle state.  The wrapper reaches the library through *)
(* the one handle it holds, so configuration and counters are kept for the *)
(* session behind that handle; those of a session that no handle refers to *)
(* any more cannot be set or read by the program again.                    *)
(***************************************************************************)
NativeLive(h) == h \in Handles /\ nstate[h] \in {"Created", "Started", "Stopped"}

NativeFreeHandles == { h \in Handles : nstate[h] = "Unallocated" }

\* the handle of the next session: handle values carry no meaning, so sessions
\* are numbered in the order of their creation
NativeFreshHandle == CHOOSE h \in NativeFreeHandles : \A g \in NativeFreeHandles : h <= g

\* relay_leaf_error_message: the message of a known code, a null pointer otherwise
NativeErrorMessage(code) ==
  CASE code = OK -> "ok"
    [] code = NULL_PARAM -> "null parameter"
    [] code = INVALID_HANDLE -> "invalid handle"
    [] code = CREATE_FAILED -> "create failed"
    [] code = START_FAILED -> "start failed"
    [] code = ALREADY_STARTED -> "already started"
    [] code = NOT_STARTED -> "not started"
    [] code = INVALID_PROXY -> "invalid proxy"
    [] code = INTERNAL -> "internal error"
    [] OTHER -> ""

\* proxy validation at registration time: scheme, host and port
NativeValidProxy(p) ==
  /\ p.scheme \in {"socks5", "http"}
  /\ p.host # ""
  /\ p.port \in 1..65535

\* relay_leaf_create: a fresh session, or CreateFailed
NativeCreateResults ==
  { [rc |-> CREATE_FAILED, handle |-> None] }
    \cup (IF NativeFreeHandles = {} THEN {}
          ELSE { [rc |-> OK, handle |-> NativeFreshHandle] })

\* relay_leaf_set_discovery_url / relay_leaf_set_partner_id: configuration is
\* accepted before start and immutable once start has been invoked
NativeConfigRc(h) ==
  IF ~NativeLive(h) THEN INVALID_HANDLE
  ELSE IF nstate[h] = "Created" THEN OK
  ELSE ALREADY_STARTED

\* relay_leaf_add_proxy
NativeAddProxyRc(h, p) ==
  IF ~NativeLive(h) THEN INVALID_HANDLE
  ELSE IF ~NativeValidProxy(p) THEN INVALID_PROXY
  ELSE IF nstate[h] = "Created" THEN OK
  ELSE ALREADY_STARTED

\* relay_leaf_start: AlreadyStarted on a started session, StartFailed when the
\* bring-up fails; a stopped session cannot be restarted
NativeStartRcs(h) ==
  IF ~NativeLive(h) THEN {INVALID_HANDLE}
  ELSE IF nstate[h] = "Started" THEN {ALREADY_STARTED}
  ELSE IF nstate[h] = "Stopped" THEN {START_FAILED, ALREADY_STARTED}
  ELSE {OK, START_FAILED}

\* relay_leaf_stop: idempotent; the session state it leaves behind
NativeStopState(h) ==
  IF NativeLive(h) /\ nstate[h] = "Started" THEN "Stopped" ELSE nstate[h]

\* relay_leaf_destroy: implies a stop, releases everything the session owns
NativeDestroyState(h) ==
  IF NativeLive(h) THEN "Destroyed" ELSE nstate[h]

\* how a native teardown call can come back: normally, with an error code, or
\* with a fault that ctypes raises as OSError; internal teardown errors do not
\* keep the release from completing
NativeTeardownReturns == {"ok", "error_code", "oserror"}

\* relay_leaf_get_stats: a snapshot of a started session; NotStarted before
\* start; after stop either the frozen counters or NotStarted
NativeGetStatsRcs(h) ==
  IF ~NativeLive(h) THEN {INVALID_HANDLE}
  ELSE IF nstate[h] = "Started" THEN {OK}
  ELSE IF nstate[h] = "Stopped" THEN {OK, NOT_STARTED}
  ELSE {NOT_STARTED}

\* relay_leaf_get_device_id: the device id, generated at creation
NativeDeviceId(h) == IF NativeLive(h) THEN "device-id" ELSE ""

(***************************************************************************)
(* class RelayLeaf: helpers.                                               *)
(***************************************************************************)
PyNone == "None"
NoSnap == [active_streams |-> 0 - 1, total_streams |-> 0 - 1]

\* a native string pointer is modelled by the string it points to, the null
\* pointer by the empty string
ptr_to_string_and_free(ptr) == IF ptr = "" THEN PyNone ELSE ptr

get_error_text(code) ==
  LET msg == ptr_to_string_and_free(NativeErrorMessage(code))
  IN  IF msg # PyNone /\ msg # "" THEN msg ELSE "error_code=" \o ToString(code)

\* what a wrapper call gives back: a returned value, or a raised RuntimeError
\* with the native code and message it carries.  `native` tells whether the
\* call went into the library, `back` how a teardown call came back from it,
\* `again` whether the call before it was a call of the same method.
Returned(op, native, val, snap) ==
  [op |-> op, outcome |-> "return", native |-> native, back |-> "n/a",
   code |-> OK, msg |-> "", val |-> val, snap |-> snap, again |-> last.op = op]

\* a call that returns after printing the native code and its message
ReturnedPrinting(op, code, val) ==
  [op |-> op, outcome |-> "return", native |-> TRUE, back |-> "n/a",
   code |-> code, msg |-> get_error_text(code), val |-> val, snap |-> NoSnap,
   again |-> last.op = op]

Raised(op, native, code, msg) ==
  [op |-> op, outcome |-> "raise", native |-> native, back |-> "n/a",
   code |-> code, msg |-> msg, val |-> "void", snap |-> NoSnap,
   again |-> last.op = op]

\* raise RuntimeError("Client not created")
NotCreated(op) == Raised(op, FALSE, OK, "Client not created")

\* variant of check: the native code is dropped and nothing is raised
check_never_raises(op, code) == Returned(op, TRUE, PyNone, NoSnap)

\* _check: RuntimeError(f"{api_name} failed: {code} ({msg})") on a non-zero code
check(op, code) ==
  IF code # 0 THEN Raised(op, TRUE, code, get_error_text(code))
  ELSE Returned(op, TRUE, PyNone, NoSnap)

(***************************************************************************)
(* class RelayLeaf: the methods, as actions on the wrapper and the native  *)
(* library.  The caller's own variables are left to the caller.            *)
(***************************************************************************)
create ==
  \E verbose \in BOOLEAN, res \in NativeCreateResults :
    /\ last' = check("create", res.rc)
    /\ IF res.rc # 0
       THEN UNCHANGED <<handle, nstate, ncfg, nstats>>
       ELSE /\ handle' = res.handle
            /\ nstate' = [nstate EXCEPT ![res.handle] = "Created"]
            /\ ncfg' = DefaultCfg
            /\ nstats' = ZeroStats

get_device_id ==
  /\ IF handle = None
     THEN last' = Returned("get_device_id", FALSE, "", NoSnap)
     ELSE LET device_id == ptr_to_string_and_free(NativeDeviceId(handle))
          IN  last' = Returned("get_device_id", TRUE,
                               IF device_id # PyNone /\ device_id # "" THEN device_id ELSE "",
                               NoSnap)
  /\ UNCHANGED <<handle, nstate, ncfg, nstats>>

set_discovery_url ==
  \E url \in DiscoveryUrls :
    IF handle = None
    THEN /\ last' = NotCreated("set_discovery_url")
         /\ UNCHANGED <<handle, nstate, ncfg, nstats>>
    ELSE LET rc == NativeConfigRc(handle)
         IN  /\ last' = check("set_discovery_url", rc)
             /\ ncfg' = IF rc = OK THEN [ncfg EXCEPT !.url = url] ELSE ncfg
             /\ UNCHANGED <<handle, nstate, nstats>>

set_partner_id ==
  \E partner_id \in PartnerIds :
    IF handle = None
    THEN /\ last' = NotCreated("set_partner_id")
         /\ UNCHANGED <<handle, nstate, ncfg, nstats>>
    ELSE LET rc == NativeConfigRc(handle)
         IN  /\ last' = check("set_partner_id", rc)
             /\ ncfg' = IF rc = OK THEN [ncfg EXCEPT !.partner = partner_id] ELSE ncfg
             /\ UNCHANGED <<handle, nstate, nstats>>

\* variant of add_proxy_result: the native code goes through _check like the others
add_proxy_result_checked(rc) == check("add_proxy", rc)

\* what add_proxy gives back for the native code rc
add_proxy_result(rc) ==
  IF rc # 0 THEN ReturnedPrinting("add_proxy", rc, "False")
  ELSE Returned("add_proxy", TRUE, "True", NoSnap)

add_proxy_call(proxy_url) ==
  IF handle = None
  THEN /\ last' = NotCreated("add_proxy")
       /\ UNCHANGED <<handle, nstate, ncfg, nstats>>
  ELSE LET rc == NativeAddProxyRc(handle, proxy_url)
       IN  /\ rc = OK => Len(ncfg.proxies) < MaxProxies
           /\ last' = add_proxy_result(rc)
           /\ ncfg' = IF rc = OK
                      THEN [ncfg EXCEPT !.proxies = Append(@, proxy_url)]
                      ELSE ncfg
           /\ UNCHANGED <<handle, nstate, nstats>>

add_proxy == \E proxy_url \in ProxyUrls : add_proxy_call(proxy_url)

start ==
  IF handle = None
  THEN /\ last' = NotCreated("start")
       /\ UNCHANGED <<handle, nstate, ncfg, nstats>>
  ELSE \E rc \in NativeStartRcs(handle) :
         /\ last' = check("start", rc)
         /\ nstate' = IF rc = OK THEN [nstate EXCEPT ![handle] = "Started"] ELSE nstate
         /\ UNCHANGED <<handle, ncfg, nstats>>

\* variant of swallow: no try statement around the native call
swallow_nothing(op, back) ==
  IF back = "oserror" THEN [Raised(op, TRUE, OK, "OSError") EXCEPT !.back = back]
  ELSE [Returned(op, TRUE, PyNone, NoSnap) EXCEPT !.back = back]

\* try: <native teardown call> except Exception: pass
\* whatever the native call returns or raises, the method returns None
swallow(op, back) == [Returned(op, TRUE, PyNone, NoSnap) EXCEPT !.back = back]

\* variant of stop: the guard is inverted, the library is never called
stop_guard_inverted ==
  /\ last' = Returned("stop", FALSE, PyNone, NoSnap)
  /\ UNCHANGED <<handle, nstate, ncfg, nstats>>

stop ==
  IF handle = None
  THEN /\ last' = Returned("stop", FALSE, PyNone, NoSnap)
       /\ UNCHANGED <<handle, nstate, ncfg, nstats>>
  ELSE \E back \in NativeTeardownReturns :
         /\ last' = swallow("stop", back)
         /\ nstate' = [nstate EXCEPT ![handle] = NativeStopState(handle)]
         /\ UNCHANGED <<handle, ncfg, nstats>>

\* variant of destroy: the handle is kept after the native call
destroy_keeps_handle ==
  IF handle = None
  THEN /\ last' = Returned("destroy", FALSE, PyNone, NoSnap)
       /\ UNCHANGED <<handle, nstate, ncfg, nstats>>
  ELSE \E back \in NativeTeardownReturns :
         /\ last' = swallow("destroy", back)
         /\ nstate' = [nstate EXCEPT ![handle] = NativeDestroyState(handle)]
         /\ ncfg' = DefaultCfg
         /\ nstats' = ZeroStats
         /\ UNCHANGED handle

\* self._handle = None follows the try statement: it runs when nothing propagated
destroy ==
  IF handle = None
  THEN /\ last' = Returned("destroy", FALSE, PyNone, NoSnap)
       /\ UNCHANGED <<handle, nstate, ncfg, nstats>>
  ELSE \E back \in NativeTeardownReturns :
         /\ last' = swallow("destroy", back)
         /\ nstate' = [nstate EXCEPT ![handle] = NativeDestroyState(handle)]
         /\ ncfg' = DefaultCfg
         /\ nstats' = ZeroStats
         /\ handle' = IF last'.outcome = "return" THEN None ELSE handle

\* variant of stats_dict: the two stream counters change places
stats_dict_swapped(stats) ==
  [active_streams |-> stats.total_streams,
   total_streams |-> stats.active_streams]

\* the dictionary built from the native struct, field by field
stats_dict(stats) ==
  [active_streams |-> stats.active_streams,
   total_streams |-> stats.total_streams]

\* variant of get_stats_result: the native code is not looked at
get_stats_result_unchecked(rc, stats) ==
  Returned("get_stats", TRUE, "dict", stats_dict(stats))

\* what get_stats gives back for the native code rc and the struct it filled
get_stats_result(rc, stats) ==
  IF rc # 0 THEN ReturnedPrinting("get_stats", rc, PyNone)
  ELSE Returned("get_stats", TRUE, "dict", stats_dict(stats))

get_stats ==
  /\ IF handle = None
     THEN last' = Returned("get_stats", FALSE, PyNone, NoSnap)
     ELSE \E rc \in NativeGetStatsRcs(handle) : last' = get_stats_result(rc, nstats)
  /\ UNCHANGED <<handle, nstate, ncfg, nstats>>

(***************************************************************************)
(* The native library's background activity on a started session, from the *)
(* specification document: streams open and close, connections fail.       *)
(***************************************************************************)
stream_open ==
  /\ handle # None
  /\ nstate[handle] = "Started"
  /\ nstats.total_streams < MaxStreams
  /\ nstats' = [nstats EXCEPT !.active_streams = @ + 1, !.total_streams = @ + 1]
  /\ UNCHANGED <<handle, nstate, ncfg, last>>

stream_close ==
  /\ handle # None
  /\ nstate[handle] = "Started"
  /\ nstats.active_streams > 0
  /\ nstats' = [nstats EXCEPT !.active_streams = @ - 1]
  /\ UNCHANGED <<handle, nstate, ncfg, last>>

\* a failed connection takes its streams with it
connection_failure ==
  /\ handle # None
  /\ nstate[handle] = "Started"
  /\ nstats.active_streams > 0
  /\ nstats' = [nstats EXCEPT !.active_streams = 0]
  /\ UNCHANGED <<handle, nstate, ncfg, last>>

StreamOpen == stream_open /\ UNCHANGED mainVars
StreamClose == stream_close /\ UNCHANGED mainVars
ConnectionFailure == connection_failure /\ UNCHANGED mainVars

(***************************************************************************)
(* A caller driving one RelayLeaf object through its methods in any order. *)
(***************************************************************************)
\* RelayLeaf.__init__: the library is loaded and no handle is held
NativeInit ==
  /\ nstate = [h \in Handles |-> "Unallocated"]
  /\ ncfg = DefaultCfg
  /\ nstats = ZeroStats

Init ==
  /\ handle = None
  /\ NativeInit
  /\ last = [op |-> "__init__", outcome |-> "return", native |-> FALSE, back |-> "n/a",
             code |-> OK, msg |-> "", val |-> PyNone, snap |-> NoSnap, again |-> FALSE]
  /\ pc = "caller"
  /\ running = TRUE
  /\ relay = TRUE
  /\ log = <<>>

Create == create /\ UNCHANGED mainVars
GetDeviceId == get_device_id /\ UNCHANGED mainVars
SetDiscoveryUrl == set_discovery_url /\ UNCHANGED mainVars
SetPartnerId == set_partner_id /\ UNCHANGED mainVars
AddProxy == add_proxy /\ UNCHANGED mainVars
Start == start /\ UNCHANGED mainVars
Stop == stop /\ UNCHANGED mainVars
Destroy == destroy /\ UNCHANGED mainVars
GetStats == get_stats /\ UNCHANGED mainVars

Next ==
  \/ Create
  \/ GetDeviceId
  \/ SetDiscoveryUrl
  \/ SetPartnerId
  \/ AddProxy
  \/ Start
  \/ Stop
  \/ Destroy
  \/ GetStats
  \/ StreamOpen
  \/ StreamClose
  \/ ConnectionFailure

Spec == Init /\ [][Next]_vars

(***************************************************************************)
(* main(): the console runner.  The handlers of SIGINT and SIGTERM are     *)
(* installed before the try statement; options holds the discovery URL, no *)
(* partner id and no proxies, so set_partner_id and add_proxy are skipped. *)
(***************************************************************************)
MainInit ==
  /\ handle = None
  /\ NativeInit
  /\ last = [op |-> "none", outcome |-> "return", native |-> FALSE, back |-> "n/a",
             code |-> OK, msg |-> "", val |-> PyNone, snap |-> NoSnap, again |-> FALSE]
  /\ pc = "construct"
  /\ running = TRUE
  /\ relay = FALSE
  /\ log = <<>>

\* where control goes after a wrapper call inside the try statement
after(next) == IF last'.outcome = "raise" THEN "except" ELSE next

signal_handler ==
  /\ pc # "done"
  /\ running
  /\ running' = FALSE
  /\ UNCHANGED <<handle, nstate, ncfg, nstats, last, pc, relay, log>>

\* relay = RelayLeaf(): loading the library can raise
main_construct ==
  /\ pc = "construct"
  /\ \E loaded \in BOOLEAN :
       /\ relay' = loaded
       /\ pc' = IF loaded THEN "create" ELSE "except"
  /\ UNCHANGED <<handle, nstate, ncfg, nstats, last, running, log>>

main_create ==
  /\ pc = "create"
  /\ create
  /\ pc' = after("get_device_id")
  /\ UNCHANGED <<running, relay, log>>

main_get_device_id ==
  /\ pc = "get_device_id"
  /\ get_device_id
  /\ pc' = after("set_discovery_url")
  /\ UNCHANGED <<running, relay, log>>

main_set_discovery_url ==
  /\ pc = "set_discovery_url"
  /\ set_discovery_url
  /\ pc' = after("start")
  /\ UNCHANGED <<running, relay, log>>

main_start ==
  /\ pc = "start"
  /\ start
  /\ pc' = after("while")
  /\ UNCHANGED <<running, relay, log>>

\* variant of main_while: the loop does not look at the flag
main_while_true ==
  /\ pc = "while"
  /\ pc' = "get_stats"
  /\ UNCHANGED <<handle, nstate, ncfg, nstats, last, running, relay, log>>

\* while running:
main_while ==
  /\ pc = "while"
  /\ pc' = IF running THEN "get_stats" ELSE "finally"
  /\ UNCHANGED <<handle, nstate, ncfg, nstats, last, running, relay, log>>

main_get_stats ==
  /\ pc = "get_stats"
  /\ get_stats
  /\ pc' = after("sleep")
  /\ UNCHANGED <<running, relay, log>>

\* time.sleep(2)
main_sleep ==
  /\ pc = "sleep"
  /\ pc' = "while"
  /\ UNCHANGED <<handle, nstate, ncfg, nstats, last, running, relay, log>>

\* except Exception as ex: print(...)
main_except ==
  /\ pc = "except"
  /\ pc' = "finally"
  /\ UNCHANGED <<handle, nstate, ncfg, nstats, last, running, relay, log>>

\* finally: if relay:
main_finally ==
  /\ pc = "finally"
  /\ pc' = IF relay THEN "stop" ELSE "done"
  /\ UNCHANGED <<handle, nstate, ncfg, nstats, last, running, relay, log>>

\* an exception out of the finally block leaves main() at once
main_stop ==
  /\ pc = "stop"
  /\ stop
  /\ log' = Append(log, "stop")
  /\ pc' = IF last'.outcome = "raise" THEN "done" ELSE "destroy"
  /\ UNCHANGED <<running, relay>>

main_destroy ==
  /\ pc = "destroy"
  /\ destroy
  /\ log' = Append(log, "destroy")
  /\ pc' = "done"
  /\ UNCHANGED <<running, relay>>

MainStep ==
  \/ main_construct
  \/ main_create
  \/ main_get_device_id
  \/ main_set_discovery_url
  \/ main_start
  \/ main_while
  \/ main_get_stats
  \/ main_sleep
  \/ main_except
  \/ main_finally
  \/ main_stop
  \/ main_destroy

MainNext ==
  \/ MainStep
  \/ signal_handler
  \/ StreamOpen
  \/ StreamClose
  \/ ConnectionFailure

\* the main thread keeps running: every call it makes returns or raises
MainSpec == MainInit /\ [][MainNext]_vars /\ WF_vars(MainStep)

(***************************************************************************)
(* Properties.                                                             *)
(***************************************************************************)
Rank(st) ==
  CASE st = "Unallocated" -> 0
    [] st = "Created" -> 1
    [] st = "Started" -> 2
    [] st = "Stopped" -> 3
    [] st = "Destroyed" -> 4

Held(st) == handle # None /\ nstate[handle] = st

\* the step is the call A of method op
Called(op, A) == last'.op = op /\ A

\* C1 as stated: stop() (destroy()) called again right after stop() (destroy())
\* returns normally, changes nothing, and does not call into the library for a
\* session the first call already stopped (destroyed).
C1_Idempotent_NoNativeCall ==
  [][ /\ (last.op = "stop" /\ Called("stop", Stop)) =>
           /\ last'.outcome = "return"
           /\ UNCHANGED sessionVars
           /\ Held("Stopped") => ~last'.native
      /\ (last.op = "destroy" /\ Called("destroy", Destroy)) =>
           /\ last'.outcome = "return"
           /\ UNCHANGED sessionVars
           /\ ~last'.native ]_vars

\* C1 amended: stop() (destroy()) called again right after stop() (destroy())
\* returns normally and changes nothing; a repeated destroy() makes no native
\* call, a repeated stop() calls relay_leaf_stop again whenever a handle is held.
C1_Idempotent ==
  [][ /\ (last.op = "stop" /\ Called("stop", Stop)) =>
           /\ last'.outcome = "return"
           /\ UNCHANGED sessionVars
           /\ last'.native <=> handle # None
      /\ (last.op = "destroy" /\ Called("destroy", Destroy)) =>
           /\ last'.outcome = "return"
           /\ UNCHANGED sessionVars
           /\ ~last'.native ]_vars

C1_Witness ==
  /\ last.op = "stop" /\ last.again /\ last.native
  /\ Held("Stopped")

\* C2: start() on a started session raises an error that carries AlreadyStarted
\* and its looked-up message, and leaves the handle, the session state and the
\* configuration as they were.
C2_SecondStart ==
  [][ (Held("Started") /\ Called("start", Start)) =>
        /\ last'.outcome = "raise"
        /\ last'.code = ALREADY_STARTED
        /\ last'.msg = NativeErrorMessage(ALREADY_STARTED)
        /\ UNCHANGED sessionVars ]_vars

C2_Witness ==
  /\ last.op = "start" /\ last.outcome = "raise" /\ last.code = ALREADY_STARTED
  /\ Held("Started")
  /\ ncfg.proxies # <<>>

\* C3 as stated: get_stats() on a session that is not created, or created and not
\* started, fails with NotStarted and gives no snapshot.
C3_NotStarted_Always ==
  [][ ((handle = None \/ nstate[handle] = "Created") /\ Called("get_stats", GetStats)) =>
        /\ last'.val = PyNone
        /\ last'.snap = NoSnap
        /\ last'.code = NOT_STARTED ]_vars

\* C3 amended: get_stats() before a successful start() gives None and no
\* snapshot; on a created session the native call fails with NotStarted, with no
\* handle held the library is not called and no code is produced.
C3_NoSnapshotBeforeStart ==
  [][ ((handle = None \/ nstate[handle] = "Created") /\ Called("get_stats", GetStats)) =>
        /\ last'.outcome = "return"
        /\ last'.val = PyNone
        /\ last'.snap = NoSnap
        /\ handle = None => (~last'.native /\ last'.code = OK)
        /\ handle # None => (last'.native /\ last'.code = NOT_STARTED) ]_vars

C3_Witness ==
  /\ last.op = "get_stats" /\ last.val = PyNone /\ last.code = NOT_STARTED
  /\ Held("Created")

\* the proxy URLs of the inputs that are not scheme://host:port with a known scheme
InvalidUrls ==
  { [scheme |-> "",       host |-> "not-a-url", port |-> 0],
    [scheme |-> "socks5", host |-> "",          port |-> 1080],
    [scheme |-> "ftp",    host |-> "10.0.0.1",  port |-> 21] }

\* C4: add_proxy with an invalid URL on a created, not started session returns
\* False with InvalidProxy, raises nothing, leaves the accepted proxies and the
\* rest of the session as they were, and the session can still be started.
C4_InvalidProxyIsolated ==
  [][ \A p \in InvalidUrls :
        (Held("Created") /\ Called("add_proxy", add_proxy_call(p) /\ UNCHANGED mainVars)) =>
          /\ last'.outcome = "return"
          /\ last'.val = "False"
          /\ last'.code = INVALID_PROXY
          /\ UNCHANGED sessionVars
          /\ OK \in NativeStartRcs(handle) ]_vars

C4_Witness ==
  /\ last.op = "add_proxy" /\ last.val = "False" /\ last.code = INVALID_PROXY
  /\ Held("Created")
  /\ Len(ncfg.proxies) = 2
  /\ ncfg.proxies[1] # ncfg.proxies[2]

\* C5: a session only moves forward through Created, Started, Stopped, Destroyed:
\* stop() takes a started session to Stopped, destroy() takes the held session to
\* Destroyed, and a stopped or destroyed session is never Started again.
C5_Monotonic ==
  [][ /\ \A h \in Handles :
           /\ Rank(nstate'[h]) >= Rank(nstate[h])
           /\ nstate[h] \in {"Stopped", "Destroyed"} => nstate'[h] # "Started"
      /\ (Held("Started") /\ Called("stop", Stop)) => nstate'[handle] = "Stopped"
      /\ (handle # None /\ Called("destroy", Destroy)) => nstate'[handle] = "Destroyed" ]_vars

C5_Witness ==
  /\ last.op = "start" /\ last.outcome = "raise"
  /\ Held("Stopped")

\* an error reported to the caller: an exception, or the None that get_stats
\* documents as its error value
ErrorReported(r) == r.outcome = "raise" \/ (r.op = "get_stats" /\ r.val = PyNone)

\* C6: with no handle held (not created yet, or destroyed), each of
\* set_discovery_url, set_partner_id, add_proxy, start, get_device_id and
\* get_stats reports an error to the caller and leaves the session as it was.
C6_NoHandleFails ==
  [][ (handle = None
        /\ \/ Called("set_discovery_url", SetDiscoveryUrl)
           \/ Called("set_partner_id", SetPartnerId)
           \/ Called("add_proxy", AddProxy)
           \/ Called("start", Start)
           \/ Called("get_device_id", GetDeviceId)
           \/ Called("get_stats", GetStats)) =>
        /\ ErrorReported(last')
        /\ UNCHANGED sessionVars ]_vars

\* C7: once relay is bound, main() is left only after stop() and then destroy()
\* were called, and after a signal main() does come to that end.
C7_ShutdownOnExit ==
  /\ []((pc = "done" /\ relay) => log = <<"stop", "destroy">>)
  /\ ((~running /\ relay) ~> (pc = "done" /\ log = <<"stop", "destroy">>))

C7_Witness ==
  /\ pc = "done" /\ relay /\ ~running
  /\ log = <<"stop", "destroy">>
  /\ \E h \in Handles : nstate[h] = "Destroyed"

\* C8: stop() and destroy() always return normally, however the native call
\* comes back; after destroy() no handle is held and the session that was held
\* is Destroyed, whether or not stop() came first.
C8_TeardownNeverRaises ==
  [][ /\ (Called("stop", Stop) \/ Called("destroy", Destroy)) => last'.outcome = "return"
      /\ Called("destroy", Destroy) => handle' = None
      /\ (handle # None /\ Called("destroy", Destroy)) => nstate'[handle] = "Destroyed" ]_vars

C8_Witness ==
  /\ last.op = "destroy" /\ last.back = "oserror" /\ ~last.again
  /\ handle = None
  /\ \E h \in Handles : nstate[h] = "Destroyed"

\* C9: every snapshot get_stats() returns has active_streams <= total_streams.
C9_ActiveAtMostTotal ==
  (last.op = "get_stats" /\ last.val = "dict") =>
    last.snap.active_streams <= last.snap.total_streams

C9_Witness ==
  /\ last.op = "get_stats" /\ last.val = "dict"
  /\ last.snap.active_streams < last.snap.total_streams
  /\ last.snap.active_streams > 0

\* C10: every native session a successful create() returned has been destroyed
\* or is the one whose handle the wrapper holds.
C10_NoLeak ==
  \A h \in Handles :
    nstate[h] \in {"Created", "Started", "Stopped"} => handle = h

====
